---- MODULE Spec2Model ----
(***************************************************************************)
(* Model of the BoolEnum derive macro (src/lib.rs).                        *)
(*                                                                         *)
(* The toolchain hands each annotated declaration to derive, which       *)
(* either aborts with a diagnostic or returns three impls (From<bool>,     *)
(* Into<bool>, Not).  The impls are then callable on the enum's values.    *)
(* Identifiers are modelled as the byte sequences of their names, so that  *)
(* sort orders them as Rust orders Strings.                            *)
(***************************************************************************)
EXTENDS Integers, Sequences, FiniteSets, TLC

VARIABLES decls, out, call

vars == <<decls, out, call>>

----------------------------------------------------------------------------
(* Bounds *)

MaxVariants == 3
NumDecls == 2
MaxBuildVariants == 2

----------------------------------------------------------------------------
(* Identifier names, as UTF-8 bytes *)

No == <<78, 111>>
Yes == <<89, 101, 115>>
False == <<70, 97, 108, 115, 101>>
True == <<84, 114, 117, 101>>
Maybe == <<77, 97, 121, 98, 101>>
LowerNo == <<110, 111>>

VariantNames == {No, Yes, False, True, Maybe, LowerNo}
\* the names the enums of one build are written with
BuildNamePools == {{No, Yes}, {False, True}}

\* syn::Fields
FieldShapes == {"Unit", "Named", "Unnamed"}

Idents == {"Good"}

\* Sequences over S of length at most n
SeqUpTo(S, n) == UNION {[1..k -> S] : k \in 0..n}

EnumDecls(names, shapes, n) ==
    {[ident |-> id, data |-> "Enum", variants |-> vs] :
        id \in Idents,
        vs \in SeqUpTo([ident : names, fields : shapes], n)}

OtherDecls ==
    {[ident |-> id, data |-> d, variants |-> <<>>] :
        id \in Idents, d \in {"Struct", "Union"}}

Declarations == EnumDecls(VariantNames, FieldShapes, MaxVariants) \cup OtherDecls

BuildDeclarations(names) ==
    EnumDecls(names, {"Unit"}, MaxBuildVariants)
        \cup EnumDecls(names, {"Unnamed"}, 1)
        \cup OtherDecls

----------------------------------------------------------------------------
(* Diagnostics and outcomes *)

MsgInvalidTarget == "BoolEnum can only be used on enums."
MsgVariantHasFields == "BoolEnum can only be used on enums with unit-like variants"
MsgInvalidVariantNames ==
    "BoolEnum can only be used on enums with two variants named No and Yes, or False and True."

NoHint == <<>>
\* hint = "try enum {} {{ No, Yes }}", ast.ident
Hint(ident) == <<"try enum ", ident, " { No, Yes }">>

\* A span is the identifier a diagnostic points at: pos 0 is the declaration's
\* own identifier, pos k > 0 the identifier of its k-th variant.
DeclSpan(ast) == [name |-> ast.ident, pos |-> 0]
VariantSpan(ast, k) == [name |-> ast.variants[k].ident, pos |-> k]

Pending == [kind |-> "Pending"]
Abort(span, msg, hint) == [kind |-> "Abort", span |-> span, msg |-> msg, hint |-> hint]
Impls(name, no, yes) == [kind |-> "Impls", name |-> name, no |-> no, yes |-> yes]

----------------------------------------------------------------------------
(* String ordering and Vec::sort *)

RECURSIVE StrLess(_, _)
\* <str as Ord>::lt : bytewise lexicographic
StrLess(a, b) ==
    IF b = <<>> THEN FALSE
    ELSE IF a = <<>> THEN TRUE
    ELSE IF Head(a) < Head(b) THEN TRUE
    ELSE IF Head(a) > Head(b) THEN FALSE
    ELSE StrLess(Tail(a), Tail(b))

RECURSIVE Insert(_, _)
Insert(x, s) ==
    IF s = <<>> THEN <<x>>
    ELSE IF StrLess(x, Head(s)) THEN <<x>> \o s
    ELSE <<Head(s)>> \o Insert(x, Tail(s))

sort_NoOp(v) == v

RECURSIVE sort(_)
\* vnames.sort()
sort(v) == IF v = <<>> THEN <<>> ELSE Insert(Head(v), sort(Tail(v)))

----------------------------------------------------------------------------
(* Helpers of derive *)

\* v.ident.to_string() for each variant, in declaration order
enum_variant_names(enm) == [k \in DOMAIN enm |-> enm[k].ident]

as_strs(v) == [k \in DOMAIN v |-> v[k]]

RECURSIVE FirstWithFields_UnnamedOnly(_, _)
FirstWithFields_UnnamedOnly(variants, k) ==
    IF k > Len(variants) THEN 0
    ELSE IF variants[k].fields = "Unnamed" THEN k
    ELSE FirstWithFields_UnnamedOnly(variants, k + 1)

RECURSIVE FirstWithFields(_, _)
\* the for v in &enm.variants loop: index of the variant it aborts on, 0 if
\* the loop runs to completion
FirstWithFields(variants, k) ==
    IF k > Len(variants) THEN 0
    ELSE IF variants[k].fields # "Unit" THEN k
    ELSE FirstWithFields(variants, k + 1)

NoMatch == <<>>

match_names_NoYesOnly(strs) ==
    IF strs = <<No, Yes>> THEN <<No, Yes>>
    ELSE NoMatch

\* match as_strs(&vnames).as_slice() { ... }: the pair (no, yes), or NoMatch
\* for the wildcard arm
match_names(strs) ==
    IF strs = <<No, Yes>> THEN <<No, Yes>>
    ELSE IF strs = <<False, True>> THEN <<False, True>>
    ELSE NoMatch

NamesStep(ast) ==
    LET vnames == sort(enum_variant_names(ast.variants))
        m == match_names(as_strs(vnames))
    IN IF m = NoMatch
       THEN Abort(DeclSpan(ast), MsgInvalidVariantNames, Hint(ast.ident))
       ELSE Impls(ast.ident, m[1], m[2])

derive_NamesFirst(ast) ==
    IF ast.data # "Enum"
    THEN Abort(DeclSpan(ast), MsgInvalidTarget, NoHint)
    ELSE LET r == NamesStep(ast)
             k == FirstWithFields(ast.variants, 1)
         IN IF r.kind = "Abort" THEN r
            ELSE IF k # 0
            THEN Abort(VariantSpan(ast, k), MsgVariantHasFields, Hint(ast.ident))
            ELSE r

derive_NoShapeCheck(ast) ==
    LET k == FirstWithFields(ast.variants, 1)
    IN IF k # 0
       THEN Abort(VariantSpan(ast, k), MsgVariantHasFields, Hint(ast.ident))
       ELSE NamesStep(ast)

\* pub fn derive(input: TokenStream) -> TokenStream
derive(ast) ==
    IF ast.data # "Enum"
    THEN Abort(DeclSpan(ast), MsgInvalidTarget, NoHint)
    ELSE LET k == FirstWithFields(ast.variants, 1)
         IN IF k # 0
            THEN Abort(VariantSpan(ast, k), MsgVariantHasFields, Hint(ast.ident))
            ELSE NamesStep(ast)

----------------------------------------------------------------------------
(* The generated impls, as instantiated from the quote! template *)

\* rustc rejects a match that does not cover the scrutinee
NonExhaustive == "E0004"

from_Swapped(u, b) == IF b THEN u.no ELSE u.yes

\* impl From<bool>: if b { Self::#yes } else { Self::#no }
from(u, b) == IF b THEN u.yes ELSE u.no

into_Swapped(u, v) ==
    CASE v = u.no -> TRUE
      [] v = u.yes -> FALSE
      [] OTHER -> NonExhaustive

\* impl Into<bool>: match self { Self::#no => false, Self::#yes => true }
into(u, v) ==
    CASE v = u.no -> FALSE
      [] v = u.yes -> TRUE
      [] OTHER -> NonExhaustive

not_Const(u, v) ==
    CASE v = u.no -> u.yes
      [] v = u.yes -> u.yes
      [] OTHER -> NonExhaustive

not_Identity(u, v) ==
    CASE v = u.no -> u.no
      [] v = u.yes -> u.yes
      [] OTHER -> NonExhaustive

\* impl Not: match self { Self::#no => Self::#yes, Self::#yes => Self::#no }
not(u, v) ==
    CASE v = u.no -> u.yes
      [] v = u.yes -> u.no
      [] OTHER -> NonExhaustive

\* the values of the declared enum: one per declared variant
Values(ast) == {ast.variants[k].ident : k \in DOMAIN ast.variants}

----------------------------------------------------------------------------
(* State machine *)

NoCall == [op |-> "none"]

Init ==
    /\ decls \in [{1} -> Declarations]
    /\ out = [i \in DOMAIN decls |-> Pending]
    /\ call = NoCall

InitBuild ==
    /\ \E names \in BuildNamePools :
           decls \in [1..NumDecls -> BuildDeclarations(names)]
    /\ out = [i \in DOMAIN decls |-> Pending]
    /\ call = NoCall

Return_AbortPoisons(outs, i, r) ==
    IF r.kind = "Abort"
    THEN [j \in DOMAIN outs |-> IF outs[j] = Pending THEN r ELSE outs[j]]
    ELSE [outs EXCEPT ![i] = r]

\* what one invocation hands back to the toolchain: the expansion (or the
\* diagnostic) of the declaration it was invoked on, and nothing else
Return(outs, i, r) == [outs EXCEPT ![i] = r]

\* the toolchain expands #[derive(BoolEnum)] on declaration i
Derive(i) ==
    /\ out[i] = Pending
    /\ out' = Return(out, i, derive(decls[i]))
    /\ UNCHANGED <<decls, call>>

\* T::from(b)
CallFrom(i, b) ==
    /\ out[i].kind = "Impls"
    /\ call' = [op |-> "from", slot |-> i, arg |-> b, ret |-> from(out[i], b)]
    /\ UNCHANGED <<decls, out>>

\* v.into()
CallInto(i, v) ==
    /\ out[i].kind = "Impls"
    /\ call' = [op |-> "into", slot |-> i, arg |-> v, ret |-> into(out[i], v)]
    /\ UNCHANGED <<decls, out>>

\* !v
CallNot(i, v) ==
    /\ out[i].kind = "Impls"
    /\ call' = [op |-> "not", slot |-> i, arg |-> v, ret |-> not(out[i], v)]
    /\ UNCHANGED <<decls, out>>

Next ==
    \/ \E i \in DOMAIN decls : Derive(i)
    \/ \E i \in DOMAIN decls, b \in BOOLEAN : CallFrom(i, b)
    \/ \E i \in DOMAIN decls : \E v \in Values(decls[i]) : CallInto(i, v)
    \/ \E i \in DOMAIN decls : \E v \in Values(decls[i]) : CallNot(i, v)

Spec == Init /\ [][Next]_vars

SpecBuild == InitBuild /\ [][Next]_vars

----------------------------------------------------------------------------
(* Vocabulary of the properties *)

Slots == DOMAIN decls

Done(i) == out[i] # Pending

Reverse(s) == [k \in DOMAIN s |-> s[Len(s) + 1 - k]]

AllUnit(d) == \A k \in DOMAIN d.variants : d.variants[k].fields = "Unit"

CanonicalPairs == {{No, Yes}, {False, True}}

\* two unit variants named No and Yes, or False and True, in either order
Valid(d) ==
    /\ d.data = "Enum"
    /\ Len(d.variants) = 2
    /\ AllUnit(d)
    /\ Values(d) \in CanonicalPairs

Truthy(d) == IF Yes \in Values(d) THEN Yes ELSE True

\* the lexicographically first of the declared names
Falsy(d) == CHOOSE n \in Values(d) : \A m \in Values(d) \ {n} : StrLess(n, m)

\* every value of the enum is matched by the generated match arms
Covered(i) == Values(decls[i]) \subseteq {out[i].no, out[i].yes}

----------------------------------------------------------------------------
(* C1: for every valid declaration, from-boolean(true) is the truthy       *)
(* variant (Yes / True) and from-boolean(false) is the falsy variant       *)
(* (No / False), the falsy variant being the lexicographically first name  *)
(* of the pair.                                                            *)
FromBoolDesignation ==
    \A i \in Slots :
        (Done(i) /\ Valid(decls[i])) =>
            /\ out[i].kind = "Impls"
            /\ from(out[i], TRUE) = Truthy(decls[i])
            /\ from(out[i], FALSE) = Falsy(decls[i])
            /\ Falsy(decls[i]) \in {No, False}
            /\ (call.op = "from" /\ call.slot = i) =>
                   call.ret = (IF call.arg THEN Truthy(decls[i]) ELSE Falsy(decls[i]))

FromBoolCalled ==
    /\ call.op = "from"
    /\ call.arg = TRUE
    /\ call.ret = True
    /\ decls[call.slot].variants[1].ident = True

(* C2: for every valid declaration and boolean b,                          *)
(* to-boolean(from-boolean(b)) = b; to-boolean maps the truthy variant to  *)
(* true, the falsy variant to false, and is total over the two variants.   *)
RoundTrip ==
    \A i \in Slots :
        (Done(i) /\ Valid(decls[i])) =>
            /\ out[i].kind = "Impls"
            /\ Covered(i)
            /\ \A b \in BOOLEAN : into(out[i], from(out[i], b)) = b
            /\ into(out[i], Truthy(decls[i])) = TRUE
            /\ into(out[i], Falsy(decls[i])) = FALSE

IntoCalledOnFrom ==
    /\ call.op = "into"
    /\ Valid(decls[call.slot])
    /\ call.arg = from(out[call.slot], TRUE)
    /\ call.ret = TRUE

(* C3: for every valid declaration and each variant v,                     *)
(* negation(negation(v)) = v, and negation(v) is a variant of the same     *)
(* declaration.                                                            *)
NotInvolution ==
    \A i \in Slots :
        (Done(i) /\ Valid(decls[i])) =>
            /\ out[i].kind = "Impls"
            /\ Covered(i)
            /\ \A v \in Values(decls[i]) :
                   /\ not(out[i], v) \in Values(decls[i])
                   /\ not(out[i], not(out[i], v)) = v

NotCalledBack ==
    /\ call.op = "not"
    /\ Valid(decls[call.slot])
    /\ call.arg = Yes
    /\ call.ret = No
    /\ not(out[call.slot], call.ret) = Yes

(* C4: for every valid declaration and each variant v, negation(v) differs *)
(* from v and to-boolean(negation(v)) is the boolean negation of           *)
(* to-boolean(v).                                                          *)
NotFlips ==
    \A i \in Slots :
        (Done(i) /\ Valid(decls[i])) =>
            /\ out[i].kind = "Impls"
            /\ Covered(i)
            /\ \A v \in Values(decls[i]) :
                   /\ not(out[i], v) # v
                   /\ into(out[i], not(out[i], v)) = ~into(out[i], v)

NotCalledOnFalse ==
    /\ call.op = "not"
    /\ Valid(decls[call.slot])
    /\ call.arg = False
    /\ call.ret = True
    /\ into(out[call.slot], call.ret) = TRUE

(* C5: two valid declarations with the same name and the same variant      *)
(* names in opposite declaration order get the same falsy and truthy       *)
(* variants, and their from-boolean, to-boolean and negation agree on      *)
(* every input.                                                            *)
OrderIrrelevant ==
    \A i, j \in Slots :
        ( /\ Done(i) /\ Done(j)
          /\ Valid(decls[i])
          /\ decls[j].data = "Enum"
          /\ decls[j].ident = decls[i].ident
          /\ decls[j].variants = Reverse(decls[i].variants) ) =>
            /\ out[i].kind = "Impls" /\ out[j].kind = "Impls"
            /\ out[i].no = out[j].no /\ out[i].yes = out[j].yes
            /\ Covered(i) /\ Covered(j)
            /\ \A b \in BOOLEAN : from(out[i], b) = from(out[j], b)
            /\ \A v \in Values(decls[i]) :
                   /\ into(out[i], v) = into(out[j], v)
                   /\ not(out[i], v) = not(out[j], v)

BothOrdersDerived ==
    /\ Done(1) /\ Done(2)
    /\ enum_variant_names(decls[1].variants) = <<True, False>>
    /\ enum_variant_names(decls[2].variants) = <<False, True>>
    /\ AllUnit(decls[1]) /\ AllUnit(decls[2])
    /\ out[1].kind = "Impls" /\ out[2].kind = "Impls"

(* C6: an enum whose variants are all unit-like is accepted exactly when   *)
(* its sorted variant names are [No, Yes] or [False, True]; any other      *)
(* count or name set fails with InvalidVariantNames, naming the            *)
(* declaration and carrying the hint.                                      *)
NamesDecideAcceptance ==
    \A i \in Slots :
        (Done(i) /\ decls[i].data = "Enum" /\ AllUnit(decls[i])) =>
            IF Len(decls[i].variants) = 2 /\ Values(decls[i]) \in CanonicalPairs
            THEN out[i].kind = "Impls"
            ELSE out[i] = Abort(DeclSpan(decls[i]), MsgInvalidVariantNames,
                                Hint(decls[i].ident))

MixedPairRejected ==
    /\ Done(1)
    /\ AllUnit(decls[1])
    /\ enum_variant_names(decls[1].variants) = <<True, No>>
    /\ out[1].kind = "Abort"
    /\ out[1].msg = MsgInvalidVariantNames

(* C7: an enum in which any variant carries fields fails with              *)
(* VariantHasFields, naming an offending variant and carrying the hint,    *)
(* and no impls are generated, whatever the number and names of variants.  *)
FieldsRejected ==
    \A i \in Slots :
        (Done(i) /\ decls[i].data = "Enum" /\ ~AllUnit(decls[i])) =>
            /\ out[i].kind = "Abort"
            /\ out[i].msg = MsgVariantHasFields
            /\ out[i].hint = Hint(decls[i].ident)
            /\ out[i].span.pos \in DOMAIN decls[i].variants
            /\ decls[i].variants[out[i].span.pos].fields # "Unit"
            /\ out[i].span.name = decls[i].variants[out[i].span.pos].ident

NamedFieldRejected ==
    /\ Done(1)
    /\ Len(decls[1].variants) = 2
    /\ decls[1].variants[1] = [ident |-> No, fields |-> "Unit"]
    /\ decls[1].variants[2] = [ident |-> Yes, fields |-> "Named"]
    /\ out[1].kind = "Abort"
    /\ out[1].span.pos = 2

(* C8: a declaration that is not an enum fails with InvalidTarget naming   *)
(* the declaration; no impls are generated and no other check applies.     *)
NonEnumRejected ==
    \A i \in Slots :
        (Done(i) /\ decls[i].data # "Enum") =>
            out[i] = Abort(DeclSpan(decls[i]), MsgInvalidTarget, NoHint)

StructRejected ==
    /\ Done(1)
    /\ decls[1].data = "Struct"
    /\ out[1].kind = "Abort"

CheckOrder ==
    \A i \in Slots :
        Done(i) =>
            /\ out[i].kind \in {"Abort", "Impls"}
            /\ out[i].kind = "Abort" =>
                   out[i].msg \in {MsgInvalidTarget, MsgVariantHasFields,
                                   MsgInvalidVariantNames}
            /\ (out[i].kind = "Abort" /\ out[i].msg = MsgInvalidTarget)
                   <=> decls[i].data # "Enum"
            /\ (decls[i].data = "Enum" /\ ~AllUnit(decls[i])) =>
                   /\ out[i].kind = "Abort"
                   /\ out[i].msg = MsgVariantHasFields
                   /\ out[i].span.pos \in DOMAIN decls[i].variants
                   /\ decls[i].variants[out[i].span.pos].fields # "Unit"
                   /\ \A k \in 1..(out[i].span.pos - 1) :
                          decls[i].variants[k].fields = "Unit"
            /\ (out[i].kind = "Abort" /\ out[i].msg = MsgInvalidVariantNames) =>
                   (AllUnit(decls[i]) /\ ~Valid(decls[i]))

FieldsBeforeNames ==
    /\ Done(1)
    /\ Len(decls[1].variants) = 3
    /\ decls[1].variants[1] = [ident |-> No, fields |-> "Unit"]
    /\ decls[1].variants[2] = [ident |-> Maybe, fields |-> "Unnamed"]
    /\ decls[1].variants[3] = [ident |-> Yes, fields |-> "Named"]
    /\ out[1].msg = MsgVariantHasFields
    /\ out[1].span = [name |-> Maybe, pos |-> 2]

====
